---- MODULE Spec2Model ----
(***************************************************************************)
(* Model of docs/create_db_models.py: twelve declarative SQLAlchemy        *)
(* models, Base.metadata.create_all on a SQLite file, and one session      *)
(* that adds 24 sample objects and commits them.                           *)
(*                                                                         *)
(* The SQLite file outlives the script, so the model lets the script run   *)
(* more than once against the same file, and lets the file's owner remove  *)
(* it between runs.  Dates are integers YYYYMMDD, Float prices and amounts *)
(* are integers in hundredths; a column that holds NULL is absent from the *)
(* row's field map.                                                        *)
(***************************************************************************)
EXTENDS Integers, Sequences, FiniteSets, TLC

VARIABLES
    pc,        \* position of the script
    declared,  \* tables registered in Base.metadata, in declaration order
    tables,    \* the SQLite file's schema: table name -> structure
    db,        \* committed rows of the SQLite file: table name -> set of rows
    tx,        \* rows inserted by the session's open transaction
    sess,      \* "none", "open" or "closed"
    pending,   \* objects added to the session and not yet flushed
    added,     \* tables whose list was handed to session.add_all, in order
    err,       \* exception that ended the script, or "none"
    now,       \* what datetime.datetime.now returns during this execution
    run,       \* number of the current execution of the script
    fresh,     \* the file held no table when the current execution began
    created,   \* the create_all calls since the file was last removed
    persisted  \* field values and clock of each COMMIT

vars == <<pc, declared, tables, db, tx, sess, pending, added, err, now, run,
          fresh, created, persisted>>

\* Bound of the model: the number of executions of the script.
MaxRuns == 2

\* The clock when the first execution starts.
StartClock == 20261104

\* Table names, in the order the classes are declared (lines 26-127).
DeclOrder ==
    << "customers", "products", "orders", "order_details", "addresses",
       "suppliers", "inventory", "payments", "categories",
       "product_categories", "employees", "shipments" >>

\* Variant of AddOrder: the orders are added before the customers.
AddOrder_swapped ==
    << "orders", "products", "customers", "order_details", "addresses",
       "suppliers", "inventory", "payments", "categories",
       "product_categories", "employees", "shipments" >>

\* The order of the session.add_all calls (lines 199-210).
AddOrder ==
    << "customers", "products", "orders", "order_details", "addresses",
       "suppliers", "inventory", "payments", "categories",
       "product_categories", "employees", "shipments" >>

Range(s) == { s[i] : i \in DOMAIN s }

TableNames == Range(DeclOrder)

\* ForeignKey(...) columns: table -> set of <<column, parent table>>.
ForeignKeys ==
    [ customers          |-> {},
      products           |-> {},
      orders             |-> { <<"customer_id", "customers">> },
      order_details      |-> { <<"order_id", "orders">>,
                               <<"product_id", "products">> },
      addresses          |-> { <<"customer_id", "customers">> },
      suppliers          |-> {},
      inventory          |-> { <<"product_id", "products">>,
                               <<"supplier_id", "suppliers">> },
      payments           |-> { <<"customer_id", "customers">> },
      categories         |-> {},
      product_categories |-> { <<"product_id", "products">>,
                               <<"category_id", "categories">> },
      employees          |-> {},
      shipments          |-> { <<"order_id", "orders">> } ]

\* nullable=False columns other than the primary key.
Required ==
    [ customers          |-> { "name" },
      products           |-> { "name" },
      orders             |-> { "customer_id" },
      order_details      |-> { "order_id", "product_id", "quantity" },
      addresses          |-> { "customer_id", "address_line1", "city" },
      suppliers          |-> { "name" },
      inventory          |-> { "product_id", "supplier_id", "quantity" },
      payments           |-> { "customer_id", "amount" },
      categories         |-> { "name" },
      product_categories |-> { "product_id", "category_id" },
      employees          |-> { "name" },
      shipments          |-> { "order_id" } ]

\* Columns declared with default=datetime.datetime.now.
Defaults ==
    [ customers          |-> {},
      products           |-> {},
      orders             |-> { "order_date" },
      order_details      |-> {},
      addresses          |-> {},
      suppliers          |-> {},
      inventory          |-> {},
      payments           |-> { "payment_date" },
      categories         |-> {},
      product_categories |-> {},
      employees          |-> { "hire_date" },
      shipments          |-> {} ]

\* The sample objects, as the keyword arguments of their constructors.
customers ==
    << [ name |-> "John Doe", email |-> "john.doe@example.com",
         phone_number |-> "123456789" ],
       [ name |-> "Jane Smith", email |-> "jane.smith@example.com",
         phone_number |-> "987654321" ] >>

products ==
    << [ name |-> "Widget", description |-> "A useful widget",
         price |-> 1999 ],
       [ name |-> "Gadget", description |-> "An awesome gadget",
         price |-> 2999 ] >>

\* Variant of orders: the first order names a customer the list lacks.
orders_dangling ==
    << [ customer_id |-> 3, order_date |-> 20230101 ],
       [ customer_id |-> 2, order_date |-> 20230201 ] >>

\* Variant of orders: the first order leaves order_date to its default.
orders_nodate ==
    << [ customer_id |-> 1 ],
       [ customer_id |-> 2, order_date |-> 20230201 ] >>

orders ==
    << [ customer_id |-> 1, order_date |-> 20230101 ],
       [ customer_id |-> 2, order_date |-> 20230201 ] >>

order_details ==
    << [ order_id |-> 1, product_id |-> 1, quantity |-> 5 ],
       [ order_id |-> 2, product_id |-> 2, quantity |-> 3 ] >>

addresses ==
    << [ customer_id |-> 1, address_line1 |-> "123 Elm St",
         city |-> "Somewhere", postal_code |-> "12345" ],
       [ customer_id |-> 2, address_line1 |-> "456 Maple Ave",
         city |-> "Anywhere", postal_code |-> "67890" ] >>

suppliers ==
    << [ name |-> "ABC Supplies", contact_name |-> "Alice" ],
       [ name |-> "XYZ Wholesale", contact_name |-> "Bob" ] >>

inventory ==
    << [ product_id |-> 1, supplier_id |-> 1, quantity |-> 100 ],
       [ product_id |-> 2, supplier_id |-> 2, quantity |-> 200 ] >>

payments ==
    << [ customer_id |-> 1, amount |-> 9995, payment_date |-> 20230115 ],
       [ customer_id |-> 2, amount |-> 8997, payment_date |-> 20230216 ] >>

categories ==
    << [ name |-> "Technology" ],
       [ name |-> "Household" ] >>

product_categories ==
    << [ product_id |-> 1, category_id |-> 1 ],
       [ product_id |-> 2, category_id |-> 2 ] >>

employees ==
    << [ name |-> "Manager Mike", hire_date |-> 20220101 ],
       [ name |-> "Worker Wanda", hire_date |-> 20220201 ] >>

shipments ==
    << [ order_id |-> 1, ship_date |-> 20230110 ],
       [ order_id |-> 2, ship_date |-> 20230210 ] >>

\* The list bound to each table's name in the script.
Seeds ==
    [ customers          |-> customers,
      products           |-> products,
      orders             |-> orders,
      order_details      |-> order_details,
      addresses          |-> addresses,
      suppliers          |-> suppliers,
      inventory          |-> inventory,
      payments           |-> payments,
      categories         |-> categories,
      product_categories |-> product_categories,
      employees          |-> employees,
      shipments          |-> shipments ]

NoRows == [ t \in TableNames |-> {} ]

NoTables == [ t \in TableNames |-> "absent" ]

Max(S) == CHOOSE m \in S : \A n \in S : n <= m

\* The contents the SQLite file may have before the first execution: no
\* file, a customers table created by someone else with another column
\* type, or a customers table that already holds a row.
InitialTargets ==
    { [ tables |-> NoTables, db |-> NoRows ],
      [ tables |-> [ NoTables EXCEPT !["customers"] = "incompatible" ],
        db |-> NoRows ],
      [ tables |-> [ NoTables EXCEPT !["customers"] = "declared" ],
        db |-> [ NoRows EXCEPT !["customers"] =
                   { [ id |-> 3, run |-> 0, ord |-> 0,
                       f |-> [ name |-> "Earlier Customer" ] ] } ] ] }

Init ==
    /\ pc = "declare"
    /\ declared = << >>
    /\ \E target \in InitialTargets :
          /\ tables = target.tables
          /\ db = target.db
          /\ fresh = (target.tables = NoTables)
    /\ tx = NoRows
    /\ sess = "none"
    /\ pending = << >>
    /\ added = << >>
    /\ err = "none"
    /\ now = StartClock
    /\ run = 1
    /\ created = << >>
    /\ persisted = << >>

\* One class statement: the table is registered in Base.metadata.
Declare ==
    /\ pc = "declare"
    /\ declared' = Append(declared, DeclOrder[Len(declared) + 1])
    /\ pc' = IF Len(declared') = Len(DeclOrder) THEN "create_all" ELSE pc
    /\ UNCHANGED <<tables, db, tx, sess, pending, added, err, now, run,
                   fresh, created, persisted>>

\* Variant of ToCreate: checkfirst=False, every declared table is created.
ToCreate_nocheck(schema, metadata) == metadata

\* Base.metadata.create_all(engine) is called with its default
\* checkfirst=True: CREATE TABLE is issued only for the declared tables
\* whose name the file does not have yet.  The structure of a table that
\* is already there is not looked at.
ToCreate(schema, metadata) ==
    { t \in metadata : schema[t] = "absent" }

\* The schema after the CREATE TABLE statements.
create_all(schema, metadata) ==
    [ t \in TableNames |->
        IF t \in ToCreate(schema, metadata) THEN "declared" ELSE schema[t] ]

\* SQLite rejects CREATE TABLE for a name that exists ("table ... already
\* exists"); the OperationalError leaves the script at line 131.
CreateAll ==
    /\ pc = "create_all"
    /\ LET metadata == Range(declared)
           ok == \A t \in ToCreate(tables, metadata) : tables[t] = "absent"
       IN  /\ tables' = IF ok THEN create_all(tables, metadata) ELSE tables
           /\ created' = Append(created, [ before |-> tables,
                                           after  |-> tables',
                                           ok     |-> ok ])
           /\ pc' = IF ok THEN "session" ELSE "crashed"
           /\ err' = IF ok THEN err ELSE "OperationalError"
    /\ UNCHANGED <<declared, db, tx, sess, pending, added, now, run,
                   fresh, persisted>>

\* Session = sessionmaker(bind=engine); session = Session()
OpenSession ==
    /\ pc = "session"
    /\ sess' = "open"
    /\ pc' = "add_all"
    /\ UNCHANGED <<declared, tables, db, tx, pending, added, err, now, run,
                   fresh, created, persisted>>

\* The objects of one list, each with its position in the list.
Objects(t) ==
    [ i \in DOMAIN Seeds[t] |-> [ t |-> t, ord |-> i, f |-> Seeds[t][i] ] ]

\* Variant of CommitPoints: a commit after every add_all call.
CommitPoints_each == 1..12

\* The number of add_all calls that precede each session.commit() call:
\* the script commits once, after the twelfth.
CommitPoints == { 12 }

\* One session.add_all(list) call.
AddAll ==
    /\ pc = "add_all"
    /\ LET t == AddOrder[Len(added) + 1] IN
          /\ pending' = pending \o Objects(t)
          /\ added' = Append(added, t)
    /\ pc' = IF Len(added') \in CommitPoints THEN "commit" ELSE pc
    /\ UNCHANGED <<declared, tables, db, tx, sess, err, now, run, fresh,
                   created, persisted>>

\* Variant of NextId: ids are counted from zero.
NextId_zero(rows) == Max({ r.id : r \in rows } \cup { -1 }) + 1

\* SQLite's rowid for an INTEGER PRIMARY KEY that the INSERT leaves out:
\* one more than the largest id the transaction can see in the table.
NextId(rows) == Max({ r.id : r \in rows } \cup { 0 }) + 1

\* The column values of the INSERT: the constructor's keyword arguments,
\* and the clock for a default=datetime.datetime.now column they leave out.
WithDefaults(t, f, clock) ==
    [ c \in DOMAIN f \cup Defaults[t] |->
        IF c \in DOMAIN f THEN f[c] ELSE clock ]

\* NOT NULL constraints of the table.
NotNullOk(t, f) == Required[t] \subseteq DOMAIN f

\* The rows the unit of work inserts for the pending objects of table t,
\* in the order the objects were added.
InsertRows(t, objs, visible, clock, k) ==
    { [ id  |-> NextId(visible) + i - 1,
        run |-> k,
        ord |-> objs[i].ord,
        f   |-> WithDefaults(t, objs[i].f, clock) ] : i \in DOMAIN objs }

\* The transaction is rolled back: nothing it inserted remains.
Rollback == NoRows

\* session.commit(), first part: the flush.  The models declare no
\* relationship(), so the unit of work has no ordering between mappers and
\* any table with pending objects may be flushed next.  A NOT NULL
\* violation raises IntegrityError out of commit() after the rollback.
\* SQLite column types are affinities, so the INSERT into a customers
\* table that was created with another column type is accepted.
FlushTable(t) ==
    /\ pc = "commit"
    /\ \E i \in DOMAIN pending : pending[i].t = t
    /\ LET objs == SelectSeq(pending, LAMBDA o : o.t = t)
           rows == InsertRows(t, objs, db[t] \cup tx[t], now, run)
       IN  IF \A r \in rows : NotNullOk(t, r.f)
           THEN /\ tx' = [ tx EXCEPT ![t] = @ \cup rows ]
                /\ pending' = SelectSeq(pending, LAMBDA o : o.t # t)
                /\ UNCHANGED <<pc, err>>
           ELSE /\ tx' = Rollback
                /\ pending' = SelectSeq(pending, LAMBDA o : o.t # t)
                /\ err' = "IntegrityError"
                /\ pc' = "crashed"
    /\ UNCHANGED <<declared, tables, db, sess, added, now, run, fresh,
                   created, persisted>>

\* session.commit() raises because the storage rejects a statement (disk
\* full, database locked): the transaction is rolled back and the
\* exception leaves the script at line 213.
StorageFailure ==
    /\ pc = "commit"
    /\ tx' = Rollback
    /\ err' = "OperationalError"
    /\ pc' = "crashed"
    /\ UNCHANGED <<declared, tables, db, sess, pending, added, now, run,
                   fresh, created, persisted>>

\* The field values of a set of rows, without ids: <<table, position, fields>>.
Stripped(rows) ==
    UNION { { <<t, r.ord, r.f>> : r \in rows[t] } : t \in TableNames }

\* What COMMIT makes of the file's rows.
CommitRows(committed, inserted) ==
    [ t \in TableNames |-> committed[t] \cup inserted[t] ]

\* session.commit(), second part: everything is flushed, COMMIT.
Commit ==
    /\ pc = "commit"
    /\ pending = << >>
    /\ db' = CommitRows(db, tx)
    /\ tx' = NoRows
    /\ persisted' = Append(persisted, [ rows |-> Stripped(tx), at |-> now ])
    /\ pc' = IF Len(added) = Len(AddOrder) THEN "close" ELSE "add_all"
    /\ UNCHANGED <<declared, tables, sess, pending, added, err, now, run,
                   fresh, created>>

\* session.close()
Close ==
    /\ pc = "close"
    /\ sess' = "closed"
    /\ pc' = "done"
    /\ UNCHANGED <<declared, tables, db, tx, pending, added, err, now, run,
                   fresh, created, persisted>>

Ended == pc \in { "done", "crashed" }

\* The script is executed again against the same file, at a later time.
Rerun ==
    /\ Ended
    /\ run < MaxRuns
    /\ run' = run + 1
    /\ now' = now + 1
    /\ fresh' = (tables = NoTables)
    /\ pc' = "declare"
    /\ declared' = << >>
    /\ tx' = NoRows
    /\ sess' = "none"
    /\ pending' = << >>
    /\ added' = << >>
    /\ err' = "none"
    /\ UNCHANGED <<tables, db, created, persisted>>

\* No statement of the current execution has run yet.
NotStarted == pc = "declare" /\ declared = << >>

\* The owner of system/genai/temp/create_db_models.sqlite removes the file
\* before an execution starts.
RemoveTarget ==
    /\ NotStarted
    /\ tables # NoTables
    /\ tables' = NoTables
    /\ db' = NoRows
    /\ fresh' = TRUE
    /\ created' = << >>
    /\ UNCHANGED <<pc, declared, tx, sess, pending, added, err, now, run,
                   persisted>>

Next ==
    \/ Declare
    \/ CreateAll
    \/ OpenSession
    \/ AddAll
    \/ \E t \in TableNames : FlushTable(t)
    \/ StorageFailure
    \/ Commit
    \/ Close
    \/ Rerun
    \/ RemoveTarget

Spec == Init /\ [][Next]_vars

TypeOK ==
    /\ pc \in { "declare", "create_all", "session", "add_all", "commit",
                "close", "done", "crashed" }
    /\ sess \in { "none", "open", "closed" }
    /\ run \in 1..MaxRuns

----------------------------------------------------------------------------
\* Helpers of the properties.

\* Every foreign-key value of the row is the id of a committed parent row.
ParentsExist(t, r) ==
    \A fk \in ForeignKeys[t] : \E p \in db[fk[2]] : p.id = r.f[fk[1]]

\* The committed rows of table t that execution k inserted.
RowsOf(t, k) == { r \in db[t] : r.run = k }

\* The committed row of table t that this execution inserted for the
\* object at position i of its list.
RowsAt(t, i) == { r \in RowsOf(t, run) : r.ord = i }

RECURSIVE SumLen(_)
SumLen(T) ==
    IF T = {} THEN 0
    ELSE LET t == CHOOSE x \in T : TRUE
         IN  Len(Seeds[t]) + SumLen(T \ { t })

RECURSIVE SumRows(_, _)
SumRows(T, k) ==
    IF T = {} THEN 0
    ELSE LET t == CHOOSE x \in T : TRUE
         IN  Cardinality(RowsOf(t, k)) + SumRows(T \ { t }, k)

\* Each parent of an element of the sequence comes earlier in the sequence.
ParentsFirst(s) ==
    \A i \in DOMAIN s : \A fk \in ForeignKeys[s[i]] :
        \E j \in 1..(i - 1) : s[j] = fk[2]

----------------------------------------------------------------------------
\* C1: when the script has run to its end against a file that held no
\* table, every foreign-key column of every committed row of orders,
\* order_details, addresses, inventory, payments, product_categories and
\* shipments holds the id of a committed row of the parent table.
C1_ReferentialIntegrity ==
    (pc = "done" /\ fresh) =>
        \A t \in TableNames : \A r \in db[t] : ParentsExist(t, r)

C1_Witness ==
    /\ pc = "done"
    /\ fresh
    /\ \A t \in TableNames : Cardinality(db[t]) = 2

\* C2: the 24 objects are committed by one COMMIT: at every moment the
\* file holds, of each execution, either all 24 rows or none, and an
\* execution that failed during commit() has left none.
C2_AllOrNothing ==
    /\ SumLen(TableNames) = 24
    /\ \A k \in 1..run :
          \/ SumRows(TableNames, k) = 0
          \/ /\ SumRows(TableNames, k) = 24
             /\ \A t \in TableNames :
                   { r.ord : r \in RowsOf(t, k) } = DOMAIN Seeds[t]
    /\ pc = "crashed" => SumRows(TableNames, run) = 0

\* commit() failed after some tables were flushed and before others were.
C2_Witness ==
    /\ pc = "crashed"
    /\ err = "OperationalError"
    /\ pending # << >>
    /\ Len(pending) < 24

\* C3: after a complete run against a file that held no table, customers
\* has exactly the two rows John Doe and Jane Smith, the first order
\* references the first customer, and the first order detail has quantity
\* 5 and references the first order and the first product.
C3_FullSeed ==
    (pc = "done" /\ fresh) =>
        /\ Cardinality(db["customers"]) = 2
        /\ { <<r.f.name, r.f.email>> : r \in db["customers"] } =
              { <<"John Doe", "john.doe@example.com">>,
                <<"Jane Smith", "jane.smith@example.com">> }
        /\ \E o \in RowsAt("orders", 1) : \E c \in RowsAt("customers", 1) :
              o.f.customer_id = c.id
        /\ \E d \in RowsAt("order_details", 1) :
              /\ d.f.quantity = 5
              /\ \E o \in RowsAt("orders", 1) : d.f.order_id = o.id
              /\ \E p \in RowsAt("products", 1) : d.f.product_id = p.id

C3_Witness ==
    /\ pc = "done"
    /\ fresh
    /\ RowsAt("order_details", 1) # {}

\* C4: the tables are declared, and their lists are added to the session,
\* in an order that puts every referenced table before the tables that
\* reference it, and the two orders are the same sequence.
C4_TopologicalOrder ==
    /\ ParentsFirst(declared)
    /\ ParentsFirst(added)
    /\ Len(added) <= Len(declared)
    /\ added = SubSeq(declared, 1, Len(added))
    /\ pc \in { "commit", "close", "done" } => added = declared

C4_Witness ==
    /\ pc = "commit"
    /\ Len(declared) = 12
    /\ Len(added) = 12

\* C5: create_all called again on a file that held no table before the
\* first call does not fail and leaves the same twelve tables as the
\* first call did.
C5_IdempotentCreate ==
    (created # << >> /\ created[1].before = NoTables) =>
        \A i \in DOMAIN created :
            /\ created[i].ok
            /\ created[i].after = created[1].after
            /\ Cardinality({ t \in TableNames :
                               created[i].after[t] = "declared" }) = 12

C5_Witness ==
    /\ Len(created) >= 2
    /\ created[1].before = NoTables
    /\ created[2].before = created[1].after

\* C6: when the file already has a customers table with another
\* structure, create_all fails with SchemaConflict and no row is written.
C6_SchemaConflict ==
    (tables["customers"] = "incompatible"
        /\ pc \notin { "declare", "create_all" }) =>
        /\ err = "SchemaConflict"
        /\ \A t \in TableNames : db[t] = {}

\* C7: every execution that commits, commits the same field values,
\* whatever the clock shows when it runs.
C7_Deterministic ==
    \A i \in DOMAIN persisted : \A j \in DOMAIN persisted :
        persisted[i].rows = persisted[j].rows

\* Two executions against an empty file have committed at different times.
C7_Witness ==
    /\ pc = "done"
    /\ fresh
    /\ \E i \in DOMAIN persisted : \E j \in DOMAIN persisted :
          persisted[i].at # persisted[j].at

C9_SessionReleased ==
    (Ended /\ sess # "none") => sess = "closed"

\* C10: after a complete run, the foreign key of each row the run inserted
\* is the id of the row the same run inserted for the parent object at
\* the position the seed names, whatever the file held before.
C10_SameBatchParent ==
    pc = "done" =>
        \A t \in TableNames : \A r \in RowsOf(t, run) :
            \A fk \in ForeignKeys[t] :
                \E p \in RowsAt(fk[2], Seeds[t][r.ord][fk[1]]) :
                    p.id = r.f[fk[1]]

====
